---- MODULE Spec2Model ----
(***************************************************************************)
(* A model of ego-tree's Vec-backed ID-tree (src/src/lib.rs).              *)
(*                                                                         *)
(* The arena Tree.vec is a sequence of node records; NodeId(i) is stored   *)
(* at position i + 1.  Option<X> is the empty tuple (None) or a tuple of   *)
(* one element (Some(x)); Option<(NodeId, NodeId)> is the empty tuple or a *)
(* pair.  Every method of NodeMut is an operator from an arena to a record *)
(* [v, ok]: the arena it leaves behind and whether it returned (ok) or     *)
(* panicked (an unwrap or expect on None).                                 *)
(***************************************************************************)
EXTENDS Integers, Sequences, FiniteSets, TLC

VARIABLES vec, op, pre, result, budget, limit, misused

vars == <<vec, op, pre, result, budget, limit, misused>>

\* ------------------------------------------------------------------ bounds

\* Under Spec and SpecFree the arena holds at most MaxNodes records.
MaxNodes == 4

\* Under SpecFree a caller is followed for MaxStale more calls on an arena
\* that has stopped satisfying the data model's invariants.
MaxStale == 1

\* Under SpecWide the arena may grow to MaxWide records.
MaxWide == 5

\* ------------------------------------------------------------------ data

None == <<>>

Some(x) == <<x>>

\* The payloads callers store.
Values == {"a"}

\* Node::new
Node_new(value) ==
    [parent |-> None, prev_sibling |-> None, next_sibling |-> None,
     children |-> None, value |-> value]

\* Tree::new
Tree_new(root) == <<Node_new(root)>>

\* Tree::node
node(v, id) == v[id + 1]

\* Tree::get / Tree::get_mut: Some exactly for an index inside the Vec.
get(v, id) == id >= 0 /\ id < Len(v)

\* The handles of the arena.
Ids(v) == 0 .. (Len(v) - 1)

\* Tree::node_mut followed by an assignment to one field.
SetParent(v, id, x) == [v EXCEPT ![id + 1].parent = x]

SetPrev(v, id, x) == [v EXCEPT ![id + 1].prev_sibling = x]

SetNext(v, id, x) == [v EXCEPT ![id + 1].next_sibling = x]

SetChildren(v, id, x) == [v EXCEPT ![id + 1].children = x]

\* A method that returned, and one that panicked leaving the arena as v.
Ok(v) == [v |-> v, ok |-> TRUE]

Panic(v) == [v |-> v, ok |-> FALSE]

\* orphan that reuses the slot of a trailing blank record instead of
\* pushing a new one.
orphan_reuse_last(v, value) ==
    IF v[Len(v)].parent = None /\ v[Len(v)].children = None /\ Len(v) > 1
    THEN [v EXCEPT ![Len(v)] = Node_new(value)]
    ELSE Append(v, Node_new(value))

\* Tree::orphan: push a fresh record; its id is the old length.
orphan(v, value) == Append(v, Node_new(value))

\* ------------------------------------------------------------------ detach

\* detach_bounds that moves the first bound one handle past the next sibling.
detach_bounds_past_next(v, self, parent_id, prev_sibling_id, next_sibling_id) ==
    LET pc == node(v, parent_id).children
    IN  IF pc = None THEN Panic(v)
        ELSE IF pc[1] = pc[2] THEN Ok(SetChildren(v, parent_id, None))
        ELSE IF pc[1] = self
             THEN IF next_sibling_id = None THEN Panic(v)
                  ELSE Ok(SetChildren(v, parent_id, <<next_sibling_id[1] + 1, pc[2]>>))
        ELSE IF pc[2] = self
             THEN IF prev_sibling_id = None THEN Panic(v)
                  ELSE Ok(SetChildren(v, parent_id, <<pc[1], prev_sibling_id[1]>>))
        ELSE Ok(v)

\* The parent's bounds after the node has been unlinked (lib.rs 340-348).
detach_bounds(v, self, parent_id, prev_sibling_id, next_sibling_id) ==
    LET pc == node(v, parent_id).children
    IN  IF pc = None THEN Panic(v)
        ELSE IF pc[1] = pc[2] THEN Ok(SetChildren(v, parent_id, None))
        ELSE IF pc[1] = self
             THEN IF next_sibling_id = None THEN Panic(v)
                  ELSE Ok(SetChildren(v, parent_id, <<next_sibling_id[1], pc[2]>>))
        ELSE IF pc[2] = self
             THEN IF prev_sibling_id = None THEN Panic(v)
                  ELSE Ok(SetChildren(v, parent_id, <<pc[1], prev_sibling_id[1]>>))
        ELSE Ok(v)

\* detach that leaves the parent's bounds as they were.
detach_keep_bounds(v, self) ==
    IF node(v, self).parent = None THEN Ok(v)
    ELSE
      LET prev_sibling_id == node(v, self).prev_sibling
          next_sibling_id == node(v, self).next_sibling
          v1 == SetNext(SetPrev(SetParent(v, self, None), self, None), self, None)
          v2 == IF prev_sibling_id # None
                THEN SetNext(v1, prev_sibling_id[1], next_sibling_id) ELSE v1
          v3 == IF next_sibling_id # None
                THEN SetPrev(v2, next_sibling_id[1], prev_sibling_id) ELSE v2
      IN  Ok(v3)

\* detach that leaves the node's own parent field as it was.
detach_keep_parent(v, self) ==
    IF node(v, self).parent = None THEN Ok(v)
    ELSE
      LET parent_id == node(v, self).parent[1]
          prev_sibling_id == node(v, self).prev_sibling
          next_sibling_id == node(v, self).next_sibling
          v1 == SetNext(SetPrev(v, self, None), self, None)
          v2 == IF prev_sibling_id # None
                THEN SetNext(v1, prev_sibling_id[1], next_sibling_id) ELSE v1
          v3 == IF next_sibling_id # None
                THEN SetPrev(v2, next_sibling_id[1], prev_sibling_id) ELSE v2
      IN  detach_bounds(v3, self, parent_id, prev_sibling_id, next_sibling_id)

\* detach that forgets to patch the previous sibling's next_sibling.
detach_no_prev_patch(v, self) ==
    IF node(v, self).parent = None THEN Ok(v)
    ELSE
      LET parent_id == node(v, self).parent[1]
          prev_sibling_id == node(v, self).prev_sibling
          next_sibling_id == node(v, self).next_sibling
          v1 == SetNext(SetPrev(SetParent(v, self, None), self, None), self, None)
          v3 == IF next_sibling_id # None
                THEN SetPrev(v1, next_sibling_id[1], prev_sibling_id) ELSE v1
      IN  detach_bounds(v3, self, parent_id, prev_sibling_id, next_sibling_id)

\* NodeMut::detach
detach(v, self) ==
    IF node(v, self).parent = None THEN Ok(v)
    ELSE
      LET parent_id == node(v, self).parent[1]
          prev_sibling_id == node(v, self).prev_sibling
          next_sibling_id == node(v, self).next_sibling
          v1 == SetNext(SetPrev(SetParent(v, self, None), self, None), self, None)
          v2 == IF prev_sibling_id # None
                THEN SetNext(v1, prev_sibling_id[1], next_sibling_id) ELSE v1
          v3 == IF next_sibling_id # None
                THEN SetPrev(v2, next_sibling_id[1], prev_sibling_id) ELSE v2
      IN  detach_bounds(v3, self, parent_id, prev_sibling_id, next_sibling_id)

\* ------------------------------------------------------------------ *_id

\* append_id that forgets to link the old last child to the new one.
append_id_no_next_link(v, self, new_child_id) ==
    LET last_child_id ==
            IF node(v, self).children = None THEN None
            ELSE Some(node(v, self).children[2])
    IN  IF ~get(v, new_child_id) THEN Panic(v)
        ELSE
          LET d == detach(v, new_child_id)
          IN  IF ~d.ok THEN d
              ELSE
                LET v1 == SetPrev(SetParent(d.v, new_child_id, Some(self)),
                                  new_child_id, last_child_id)
                    c  == node(v1, self).children
                IN  IF c # None
                    THEN Ok(SetChildren(v1, self, <<c[1], new_child_id>>))
                    ELSE Ok(SetChildren(v1, self, <<new_child_id, new_child_id>>))

\* append_id that refuses the receiver's own handle.
append_id_refuse_self(v, self, new_child_id) ==
    LET last_child_id ==
            IF node(v, self).children = None THEN None
            ELSE Some(node(v, self).children[2])
    IN  IF ~get(v, new_child_id) \/ new_child_id = self THEN Panic(v)
        ELSE
          LET d == detach(v, new_child_id)
          IN  IF ~d.ok THEN d
              ELSE
                LET v1 == SetPrev(SetParent(d.v, new_child_id, Some(self)),
                                  new_child_id, last_child_id)
                    v2 == IF last_child_id # None
                          THEN SetNext(v1, last_child_id[1], Some(new_child_id))
                          ELSE v1
                    c  == node(v2, self).children
                IN  IF c # None
                    THEN Ok(SetChildren(v2, self, <<c[1], new_child_id>>))
                    ELSE Ok(SetChildren(v2, self, <<new_child_id, new_child_id>>))

\* NodeMut::append_id
append_id(v, self, new_child_id) ==
    LET last_child_id ==
            IF node(v, self).children = None THEN None
            ELSE Some(node(v, self).children[2])
    IN  IF ~get(v, new_child_id) THEN Panic(v)
        ELSE
          LET d == detach(v, new_child_id)
          IN  IF ~d.ok THEN d
              ELSE
                LET v1 == SetPrev(SetParent(d.v, new_child_id, Some(self)),
                                  new_child_id, last_child_id)
                    v2 == IF last_child_id # None
                          THEN SetNext(v1, last_child_id[1], Some(new_child_id))
                          ELSE v1
                    c  == node(v2, self).children
                IN  IF c # None
                    THEN Ok(SetChildren(v2, self, <<c[1], new_child_id>>))
                    ELSE Ok(SetChildren(v2, self, <<new_child_id, new_child_id>>))

\* NodeMut::prepend_id
prepend_id(v, self, new_child_id) ==
    LET first_child_id ==
            IF node(v, self).children = None THEN None
            ELSE Some(node(v, self).children[1])
    IN  IF ~get(v, new_child_id) THEN Panic(v)
        ELSE
          LET d == detach(v, new_child_id)
          IN  IF ~d.ok THEN d
              ELSE
                LET v1 == SetNext(SetParent(d.v, new_child_id, Some(self)),
                                  new_child_id, first_child_id)
                    v2 == IF first_child_id # None
                          THEN SetPrev(v1, first_child_id[1], Some(new_child_id))
                          ELSE v1
                    c  == node(v2, self).children
                IN  IF c # None
                    THEN Ok(SetChildren(v2, self, <<new_child_id, c[2]>>))
                    ELSE Ok(SetChildren(v2, self, <<new_child_id, new_child_id>>))

\* insert_id_before that never moves the parent's first bound.
insert_id_before_keep_first(v, self, new_sibling_id) ==
    IF node(v, self).parent = None THEN Panic(v)
    ELSE IF ~get(v, new_sibling_id) THEN Panic(v)
    ELSE
      LET parent_id == node(v, self).parent[1]
          prev_sibling_id == node(v, self).prev_sibling
          v1 == SetNext(SetPrev(SetParent(v, new_sibling_id, Some(parent_id)),
                                new_sibling_id, prev_sibling_id),
                        new_sibling_id, Some(self))
          v2 == IF prev_sibling_id # None
                THEN SetNext(v1, prev_sibling_id[1], Some(new_sibling_id)) ELSE v1
          v3 == SetPrev(v2, self, Some(new_sibling_id))
          pc == node(v3, parent_id).children
      IN  IF pc = None THEN Panic(v3) ELSE Ok(v3)

\* NodeMut::insert_id_before
insert_id_before(v, self, new_sibling_id) ==
    IF node(v, self).parent = None THEN Panic(v)
    ELSE IF ~get(v, new_sibling_id) THEN Panic(v)
    ELSE
      LET parent_id == node(v, self).parent[1]
          prev_sibling_id == node(v, self).prev_sibling
          v1 == SetNext(SetPrev(SetParent(v, new_sibling_id, Some(parent_id)),
                                new_sibling_id, prev_sibling_id),
                        new_sibling_id, Some(self))
          v2 == IF prev_sibling_id # None
                THEN SetNext(v1, prev_sibling_id[1], Some(new_sibling_id)) ELSE v1
          v3 == SetPrev(v2, self, Some(new_sibling_id))
          pc == node(v3, parent_id).children
      IN  IF pc = None THEN Panic(v3)
          ELSE IF pc[1] = self
               THEN Ok(SetChildren(v3, parent_id, <<new_sibling_id, pc[2]>>))
          ELSE Ok(v3)

\* insert_id_after that points the new sibling back at the receiver before
\* it looks for the receiver's parent.
insert_id_after_link_first(v, self, new_sibling_id) ==
    IF ~get(v, new_sibling_id) THEN Panic(v)
    ELSE IF node(v, self).parent = None
    THEN Panic(SetPrev(v, new_sibling_id, Some(self)))
    ELSE
      LET parent_id == node(v, self).parent[1]
          next_sibling_id == node(v, self).next_sibling
          v1 == SetNext(SetPrev(SetParent(v, new_sibling_id, Some(parent_id)),
                                new_sibling_id, Some(self)),
                        new_sibling_id, next_sibling_id)
          v2 == IF next_sibling_id # None
                THEN SetPrev(v1, next_sibling_id[1], Some(new_sibling_id)) ELSE v1
          v3 == SetNext(v2, self, Some(new_sibling_id))
          pc == node(v3, parent_id).children
      IN  IF pc = None THEN Panic(v3)
          ELSE IF pc[2] = self
               THEN Ok(SetChildren(v3, parent_id, <<pc[1], new_sibling_id>>))
          ELSE Ok(v3)

\* NodeMut::insert_id_after
insert_id_after(v, self, new_sibling_id) ==
    IF node(v, self).parent = None THEN Panic(v)
    ELSE IF ~get(v, new_sibling_id) THEN Panic(v)
    ELSE
      LET parent_id == node(v, self).parent[1]
          next_sibling_id == node(v, self).next_sibling
          v1 == SetNext(SetPrev(SetParent(v, new_sibling_id, Some(parent_id)),
                                new_sibling_id, Some(self)),
                        new_sibling_id, next_sibling_id)
          v2 == IF next_sibling_id # None
                THEN SetPrev(v1, next_sibling_id[1], Some(new_sibling_id)) ELSE v1
          v3 == SetNext(v2, self, Some(new_sibling_id))
          pc == node(v3, parent_id).children
      IN  IF pc = None THEN Panic(v3)
          ELSE IF pc[2] = self
               THEN Ok(SetChildren(v3, parent_id, <<pc[1], new_sibling_id>>))
          ELSE Ok(v3)

\* The children iterator's nth(n): the node n next_sibling steps after the
\* first child, None when the chain ends earlier.
RECURSIVE nth_from(_, _, _)
nth_from(v, cur, n) ==
    IF cur = None THEN None
    ELSE IF n = 0 THEN cur
    ELSE nth_from(v, node(v, cur[1]).next_sibling, n - 1)

children_nth(v, id, n) ==
    IF node(v, id).children = None THEN None
    ELSE nth_from(v, Some(node(v, id).children[1]), n)

\* insert_id that looks for the child at index instead of index - 1.
insert_id_off_by_one(v, self, new_child_id, index) ==
    IF index = 0 THEN prepend_id(v, self, new_child_id)
    ELSE
      LET pre_sibling == children_nth(v, self, index)
      IN  IF pre_sibling = None THEN Panic(v)
          ELSE insert_id_after(v, pre_sibling[1], new_child_id)

\* NodeMut::insert_id
insert_id(v, self, new_child_id, index) ==
    IF index = 0 THEN prepend_id(v, self, new_child_id)
    ELSE
      LET pre_sibling == children_nth(v, self, index - 1)
      IN  IF pre_sibling = None THEN Panic(v)
          ELSE insert_id_after(v, pre_sibling[1], new_child_id)

\* ------------------------------------------------------------------ reparent

\* reparent_from_id_append that forgets to link the old last child to the
\* first of the new children.
reparent_from_id_append_no_link(v, self, from_id) ==
    IF ~get(v, from_id) THEN Panic(v)
    ELSE IF node(v, from_id).children = None THEN Ok(v)
    ELSE
      LET new_child_ids == node(v, from_id).children
          v0 == SetChildren(v, from_id, None)
          v1 == SetParent(SetParent(v0, new_child_ids[1], Some(self)),
                          new_child_ids[2], Some(self))
      IN  IF node(v1, self).children = None
          THEN Ok(SetChildren(v1, self, new_child_ids))
          ELSE
            LET old_child_ids == node(v1, self).children
                v3 == SetPrev(v1, new_child_ids[1], Some(old_child_ids[2]))
            IN  Ok(SetChildren(v3, self, <<old_child_ids[1], new_child_ids[2]>>))

\* NodeMut::reparent_from_id_append
reparent_from_id_append(v, self, from_id) ==
    IF ~get(v, from_id) THEN Panic(v)
    ELSE IF node(v, from_id).children = None THEN Ok(v)
    ELSE
      LET new_child_ids == node(v, from_id).children
          v0 == SetChildren(v, from_id, None)
          v1 == SetParent(SetParent(v0, new_child_ids[1], Some(self)),
                          new_child_ids[2], Some(self))
      IN  IF node(v1, self).children = None
          THEN Ok(SetChildren(v1, self, new_child_ids))
          ELSE
            LET old_child_ids == node(v1, self).children
                v2 == SetNext(v1, old_child_ids[2], Some(new_child_ids[1]))
                v3 == SetPrev(v2, new_child_ids[1], Some(old_child_ids[2]))
            IN  Ok(SetChildren(v3, self, <<old_child_ids[1], new_child_ids[2]>>))

\* reparent_from_id_prepend that treats a handle outside the arena as a node
\* without children, and takes the receiver's first child for it.
reparent_from_id_prepend_unchecked(v, self, from_id) ==
    IF ~get(v, from_id) THEN Ok(SetChildren(v, self, None))
    ELSE IF node(v, from_id).children = None THEN Ok(v)
    ELSE
      LET new_child_ids == node(v, from_id).children
          v0 == SetChildren(v, from_id, None)
          v1 == SetParent(SetParent(v0, new_child_ids[1], Some(self)),
                          new_child_ids[2], Some(self))
      IN  IF node(v1, self).children = None
          THEN Ok(SetChildren(v1, self, new_child_ids))
          ELSE
            LET old_child_ids == node(v1, self).children
                v2 == SetPrev(v1, old_child_ids[1], Some(new_child_ids[2]))
                v3 == SetNext(v2, new_child_ids[2], Some(old_child_ids[1]))
            IN  Ok(SetChildren(v3, self, <<new_child_ids[1], old_child_ids[2]>>))

\* NodeMut::reparent_from_id_prepend
reparent_from_id_prepend(v, self, from_id) ==
    IF ~get(v, from_id) THEN Panic(v)
    ELSE IF node(v, from_id).children = None THEN Ok(v)
    ELSE
      LET new_child_ids == node(v, from_id).children
          v0 == SetChildren(v, from_id, None)
          v1 == SetParent(SetParent(v0, new_child_ids[1], Some(self)),
                          new_child_ids[2], Some(self))
      IN  IF node(v1, self).children = None
          THEN Ok(SetChildren(v1, self, new_child_ids))
          ELSE
            LET old_child_ids == node(v1, self).children
                v2 == SetPrev(v1, old_child_ids[1], Some(new_child_ids[2]))
                v3 == SetNext(v2, new_child_ids[2], Some(old_child_ids[1]))
            IN  Ok(SetChildren(v3, self, <<new_child_ids[1], old_child_ids[2]>>))

\* ------------------------------------------------------------------ value-taking

\* NodeMut::append
append(v, self, value) == append_id(orphan(v, value), self, Len(v))

\* NodeMut::prepend
prepend(v, self, value) == prepend_id(orphan(v, value), self, Len(v))

\* NodeMut::insert
insert(v, self, value, index) == insert_id(orphan(v, value), self, Len(v), index)

\* NodeMut::insert_before
insert_before(v, self, value) == insert_id_before(orphan(v, value), self, Len(v))

\* NodeMut::insert_after
insert_after(v, self, value) == insert_id_after(orphan(v, value), self, Len(v))

\* ------------------------------------------------------------------ shape

\* The nodes met by following next_sibling from cur, at most fuel of them.
RECURSIVE Walk(_, _, _)
Walk(v, cur, fuel) ==
    IF cur = None \/ fuel = 0 THEN <<>>
    ELSE <<cur[1]>> \o Walk(v, node(v, cur[1]).next_sibling, fuel - 1)

\* The child sequence of p: what following next_sibling from its first child
\* visits (cut after Len(v) + 1 nodes, which only a cyclic chain reaches).
ChildSeq(v, p) ==
    IF node(v, p).children = None THEN <<>>
    ELSE Walk(v, Some(node(v, p).children[1]), Len(v) + 1)

Range(s) == {s[i] : i \in 1 .. Len(s)}

NoDuplicates(s) == \A i, j \in 1 .. Len(s) : s[i] = s[j] => i = j

\* Following parent links from id for at most fuel steps reaches a node
\* without a parent.
RECURSIVE ReachesTop(_, _, _)
ReachesTop(v, id, fuel) ==
    IF node(v, id).parent = None THEN TRUE
    ELSE IF fuel = 0 THEN FALSE
    ELSE ReachesTop(v, node(v, id).parent[1], fuel - 1)

\* Sibling symmetry over a whole arena.
Symmetric(v) ==
    \A a, b \in Ids(v) :
        node(v, a).next_sibling = Some(b) <=> node(v, b).prev_sibling = Some(a)

\* The child chain of p is a list from its first to its last bound, all of
\* whose nodes name p as parent.
BoundsConsistent(v, p) ==
    LET c == node(v, p).children
        s == ChildSeq(v, p)
    IN  c # None =>
          /\ Len(s) <= Len(v)
          /\ NoDuplicates(s)
          /\ s[Len(s)] = c[2]
          /\ node(v, c[1]).prev_sibling = None
          /\ \A i \in 1 .. Len(s) : node(v, s[i]).parent = Some(p)

\* Every node with a parent is in that parent's child chain, once, and in
\* no other chain.
Membership(v) ==
    \A n \in Ids(v) :
        node(v, n).parent # None =>
          /\ Cardinality({i \in 1 .. Len(ChildSeq(v, node(v, n).parent[1])) :
                            ChildSeq(v, node(v, n).parent[1])[i] = n}) = 1
          /\ \A q \in Ids(v) :
                q # node(v, n).parent[1] => n \notin Range(ChildSeq(v, q))

\* A node without a parent has no siblings.
OrphanShape(v) ==
    \A n \in Ids(v) :
        node(v, n).parent = None =>
            node(v, n).prev_sibling = None /\ node(v, n).next_sibling = None

\* The data model's invariants together (spec section 3).
WellFormed(v) ==
    /\ node(v, 0).parent = None
    /\ OrphanShape(v)
    /\ Symmetric(v)
    /\ \A p \in Ids(v) : BoundsConsistent(v, p)
    /\ Membership(v)
    /\ \A n \in Ids(v) : ReachesTop(v, n, Len(v))

\* ------------------------------------------------------------------ the program

\* a is id or an ancestor of id.
RECURSIVE IsSelfOrAncestor(_, _, _, _)
IsSelfOrAncestor(v, a, id, fuel) ==
    IF a = id THEN TRUE
    ELSE IF node(v, id).parent = None \/ fuel = 0 THEN FALSE
    ELSE IsSelfOrAncestor(v, a, node(v, id).parent[1], fuel - 1)

\* The calls that take a handle.
HandleOps ==
    {"append_id", "prepend_id", "insert_id", "insert_id_before", "insert_id_after",
     "reparent_from_id_append", "reparent_from_id_prepend"}

\* What the caller did last: the method, its receiver, its handle argument
\* (or Len(pre) when the method allocates) and its index.
Call(name, self, id, index) ==
    [name |-> name, self |-> self, id |-> id, index |-> index]

\* One call: the arena becomes what the method leaves, and the call and the
\* arena before it are remembered.
\* The call hands a method the receiver itself or one of the receiver's
\* ancestors as the node to place or to take the children from.
Misuse(call, v) ==
    /\ call.name \in HandleOps
    /\ get(v, call.id)
    /\ IsSelfOrAncestor(v, call.id, call.self, Len(v))

\* misused records that such a call has changed the arena; one that left it
\* as it was (N.reparent_from_id_append(N)) leads to the states the caller
\* reaches without making it.
Step(call, r) ==
    /\ vec' = r.v
    /\ op' = call
    /\ pre' = vec
    /\ result' = IF r.ok THEN "ok" ELSE "panic"
    /\ budget' = IF WellFormed(vec) THEN budget ELSE budget - 1
    /\ limit' = limit
    /\ misused' = (misused \/ (Misuse(call, vec) /\ r.v # vec))

\* A caller is followed until a call panics or, budget calls after one has
\* left an arena that breaks the data model's invariants: such an arena is
\* a state of the model, what later calls make of it is explored only
\* while budget lasts (not at all under Spec, whose budget is 0).
Followed == result = "ok" /\ (WellFormed(vec) \/ budget > 0)

\* No NodeMut is alive: the tree can be borrowed for the next call.
Ready == op.name \in {"new", "released"}

\* A call can be made.
Callable == Ready /\ Followed

\* The NodeMut a call returned (it borrows the tree exclusively) goes out of
\* scope.  What the call was and the arena before it are forgotten.
Release ==
    /\ ~Ready
    /\ Followed
    /\ vec' = vec
    /\ op' = Call("released", 0, 0, 0)
    /\ pre' = vec
    /\ result' = result
    /\ budget' = budget
    /\ limit' = limit
    /\ misused' = misused

\* The handles a caller may pass: every handle of the arena and one past it.
Handles == 0 .. Len(vec)

\* The indices a caller may pass to insert.
Indices == 0 .. Len(vec)

\* Vec::push is modelled while the arena holds fewer than limit records.
CanAllocate == Len(vec) < limit

Init ==
    /\ vec \in {Tree_new(value) : value \in Values}
    /\ op = Call("new", 0, 0, 0)
    /\ pre = vec
    /\ result = "ok"
    /\ budget = 0
    /\ limit = MaxNodes
    /\ misused = FALSE

\* The same start for a caller who is followed past a broken arena.
InitFree ==
    /\ vec \in {Tree_new(value) : value \in Values}
    /\ op = Call("new", 0, 0, 0)
    /\ pre = vec
    /\ result = "ok"
    /\ budget = MaxStale
    /\ limit = MaxNodes
    /\ misused = FALSE

\* The same start for a caller whose arena may grow to MaxWide records.
InitWide ==
    /\ vec \in {Tree_new(value) : value \in Values}
    /\ op = Call("new", 0, 0, 0)
    /\ pre = vec
    /\ result = "ok"
    /\ budget = 0
    /\ limit = MaxWide
    /\ misused = FALSE

Orphan ==
    /\ Callable
    /\ CanAllocate
    /\ \E value \in Values :
         Step(Call("orphan", Len(vec), Len(vec), 0), Ok(orphan(vec, value)))

AppendOp ==
    /\ Callable
    /\ CanAllocate
    /\ \E self \in Ids(vec), value \in Values :
         Step(Call("append", self, Len(vec), 0), append(vec, self, value))

PrependOp ==
    /\ Callable
    /\ CanAllocate
    /\ \E self \in Ids(vec), value \in Values :
         Step(Call("prepend", self, Len(vec), 0), prepend(vec, self, value))

InsertOp ==
    /\ Callable
    /\ CanAllocate
    /\ \E self \in Ids(vec), value \in Values, index \in Indices :
         Step(Call("insert", self, Len(vec), index), insert(vec, self, value, index))

InsertBeforeOp ==
    /\ Callable
    /\ CanAllocate
    /\ \E self \in Ids(vec), value \in Values :
         Step(Call("insert_before", self, Len(vec), 0), insert_before(vec, self, value))

InsertAfterOp ==
    /\ Callable
    /\ CanAllocate
    /\ \E self \in Ids(vec), value \in Values :
         Step(Call("insert_after", self, Len(vec), 0), insert_after(vec, self, value))

\* node.append(value).detach(): detach called on the NodeMut append returns.
AppendDetachOp ==
    /\ Callable
    /\ CanAllocate
    /\ \E self \in Ids(vec), value \in Values :
         LET a == append(vec, self, value)
         IN  Step(Call("append.detach", self, Len(vec), 0),
                  IF a.ok THEN detach(a.v, Len(vec)) ELSE a)

DetachOp ==
    /\ Callable
    /\ \E self \in Ids(vec) :
         Step(Call("detach", self, self, 0), detach(vec, self))

AppendIdOp ==
    /\ Callable
    /\ \E self \in Ids(vec), id \in Handles :
         Step(Call("append_id", self, id, 0), append_id(vec, self, id))

PrependIdOp ==
    /\ Callable
    /\ \E self \in Ids(vec), id \in Handles :
         Step(Call("prepend_id", self, id, 0), prepend_id(vec, self, id))

InsertIdOp ==
    /\ Callable
    /\ \E self \in Ids(vec), id \in Handles, index \in Indices :
         Step(Call("insert_id", self, id, index), insert_id(vec, self, id, index))

InsertIdBeforeOp ==
    /\ Callable
    /\ \E self \in Ids(vec), id \in Handles :
         Step(Call("insert_id_before", self, id, 0), insert_id_before(vec, self, id))

InsertIdAfterOp ==
    /\ Callable
    /\ \E self \in Ids(vec), id \in Handles :
         Step(Call("insert_id_after", self, id, 0), insert_id_after(vec, self, id))

ReparentAppendOp ==
    /\ Callable
    /\ \E self \in Ids(vec), id \in Handles :
         Step(Call("reparent_from_id_append", self, id, 0),
              reparent_from_id_append(vec, self, id))

ReparentPrependOp ==
    /\ Callable
    /\ \E self \in Ids(vec), id \in Handles :
         Step(Call("reparent_from_id_prepend", self, id, 0),
              reparent_from_id_prepend(vec, self, id))

Next ==
    \/ Release
    \/ Orphan
    \/ AppendOp
    \/ PrependOp
    \/ InsertOp
    \/ InsertBeforeOp
    \/ InsertAfterOp
    \/ DetachOp
    \/ AppendIdOp
    \/ PrependIdOp
    \/ InsertIdBeforeOp
    \/ InsertIdAfterOp
    \/ ReparentAppendOp
    \/ ReparentPrependOp
    \/ InsertIdOp
    \/ AppendDetachOp

\* Calls from well-formed arenas of up to MaxNodes records.
Spec == Init /\ [][Next]_vars

\* The same, with MaxStale further calls on an arena a call has broken.
SpecFree == InitFree /\ [][Next]_vars

\* Calls from well-formed arenas of up to MaxWide records.
SpecWide == InitWide /\ [][Next]_vars

\* ------------------------------------------------------------------ claims

\* The last call returned.
Returned == result = "ok"

\* The last call was name and returned.
Did(name) == op.name = name /\ Returned

\* The methods that take the handle of an existing node to place.
IdOps == {"append_id", "prepend_id", "insert_id", "insert_id_before", "insert_id_after"}

\* s without the element x.
RECURSIVE Without(_, _)
Without(s, x) ==
    IF s = <<>> THEN <<>>
    ELSE IF Head(s) = x THEN Without(Tail(s), x)
    ELSE <<Head(s)>> \o Without(Tail(s), x)

\* The position of x in s (0 when absent).
RECURSIVE IndexOf(_, _)
IndexOf(s, x) ==
    IF s = <<>> THEN 0
    ELSE IF Head(s) = x THEN 1
    ELSE IF IndexOf(Tail(s), x) = 0 THEN 0 ELSE 1 + IndexOf(Tail(s), x)

\* s with x placed so that it becomes element i.
InsertAt(s, i, x) == SubSeq(s, 1, i - 1) \o <<x>> \o SubSeq(s, i, Len(s))

\* C1: sibling symmetry is an invariant: after every call that returns, for
\* all nodes A and B, A.next_sibling = Some(B) iff B.prev_sibling = Some(A).
C1_SiblingSymmetry == Returned => Symmetric(vec)

\* C2: child-bounds consistency is an invariant: after every call that
\* returns, for every node P with children the chain from its first child is
\* finite, ends exactly at its last child, starts at a node without
\* prev_sibling, and every node of it has parent = Some(P).
C2_ChildBounds == Returned => \A p \in Ids(vec) : BoundsConsistent(vec, p)

\* C3: root invariant: after every call that returns, handle 0 included
\* among the handles passed, the root has no parent and no siblings.
C3_RootInvariant ==
    Returned =>
        /\ node(vec, 0).parent = None
        /\ node(vec, 0).prev_sibling = None
        /\ node(vec, 0).next_sibling = None

\* C5: parent membership is an invariant: after every call that returns,
\* every node with parent = Some(P) occurs exactly once in P's child chain
\* and in no other node's child chain.
C5_ParentMembership == Returned => Membership(vec)

\* The node under which an IdOps call places its handle: the receiver for
\* append_id, prepend_id and insert_id, the receiver's parent for
\* insert_id_before and insert_id_after.
Destination(v, call) ==
    IF call.name \in {"insert_id_before", "insert_id_after"}
    THEN node(v, call.self).parent[1]
    ELSE call.self

\* The nodes whose child chain holds h.
ChainsHolding(v, h) == {q \in Ids(v) : h \in Range(ChildSeq(v, q))}

\* The previous and next links, the parent and the bounds of p's children
\* all agree with p's child sequence.
LinksAgree(v, p) ==
    LET s == ChildSeq(v, p)
    IN  /\ s # <<>>
        /\ Len(s) <= Len(v)
        /\ node(v, p).children = <<s[1], s[Len(s)]>>
        /\ \A i \in 1 .. Len(s) :
              /\ node(v, s[i]).parent = Some(p)
              /\ node(v, s[i]).prev_sibling = (IF i = 1 THEN None ELSE Some(s[i - 1]))
              /\ node(v, s[i]).next_sibling =
                    (IF i = Len(s) THEN None ELSE Some(s[i + 1]))

\* The case C4 is about: an IdOps call that returned, given a handle h that
\* was attached under Q, the destination being another node than Q, and h
\* neither the destination nor one of its ancestors.
C4_Case ==
    /\ op.name \in IdOps
    /\ Returned
    /\ get(pre, op.id)
    /\ node(pre, op.id).parent # None
    /\ node(pre, op.id).parent[1] # Destination(vec, op)
    /\ ~IsSelfOrAncestor(pre, op.id, Destination(vec, op), Len(pre))

\* C4: the *_id operations implicitly detach their target first: Q's child
\* sequence is the old one without h, h's former neighbours are linked to
\* each other, Q's bounds do not refer to h, and h is in exactly one child
\* chain.
C4_ImplicitDetach ==
    C4_Case =>
        LET h == op.id
            Q == node(pre, h).parent[1]
            S == ChildSeq(pre, Q)
            i == IndexOf(S, h)
            c == node(vec, Q).children
        IN  /\ ChildSeq(vec, Q) = Without(S, h)
            /\ i > 1 =>
                 node(vec, S[i - 1]).next_sibling =
                    (IF i < Len(S) THEN Some(S[i + 1]) ELSE None)
            /\ i < Len(S) =>
                 node(vec, S[i + 1]).prev_sibling =
                    (IF i > 1 THEN Some(S[i - 1]) ELSE None)
            /\ c # None => c[1] # h /\ c[2] # h
            /\ Cardinality(ChainsHolding(vec, h)) = 1

\* C6: reparent splice correctness: for N with child sequence A and another
\* node S with child sequence B, reparent_from_id_append(S) leaves N with A
\* followed by B and S without children, reparent_from_id_prepend(S) leaves
\* N with B followed by A and S without children, and nothing changes when B
\* is empty.
C6_ReparentSplice ==
    (/\ op.name \in {"reparent_from_id_append", "reparent_from_id_prepend"}
     /\ op.id # op.self
     /\ get(pre, op.id)) =>
        LET A == ChildSeq(pre, op.self)
            B == ChildSeq(pre, op.id)
        IN  /\ Returned
            /\ IF B = <<>> THEN vec = pre
               ELSE /\ ChildSeq(vec, op.self) =
                          (IF op.name = "reparent_from_id_append"
                           THEN A \o B ELSE B \o A)
                    /\ node(vec, op.id).children = None

\* A reparent_from_id_append that joined two non-empty child sequences of
\* nodes neither of which is above the other.
C6_Witness ==
    /\ Did("reparent_from_id_append")
    /\ op.id # op.self
    /\ ~IsSelfOrAncestor(pre, op.id, op.self, Len(pre))
    /\ ~IsSelfOrAncestor(pre, op.self, op.id, Len(pre))
    /\ ChildSeq(pre, op.self) # <<>>
    /\ ChildSeq(pre, op.id) # <<>>
    /\ Len(ChildSeq(vec, op.self)) = 2

\* C7: detach() on an attached node N with parent P: P's child sequence is
\* the old one without N, P's bounds follow it (None when N was the only
\* child), N has no parent and no siblings, N's children and the subtree
\* under N are unchanged, and no node other than N, its two former
\* neighbours and P has any field changed.
C7_DetachFrame ==
    (op.name = "detach" /\ node(pre, op.self).parent # None) =>
        LET N == op.self
            P == node(pre, N).parent[1]
            S == ChildSeq(pre, P)
            T == Without(S, N)
            touched == {N, P} \cup {m \in Ids(pre) :
                            \/ node(pre, N).prev_sibling = Some(m)
                            \/ node(pre, N).next_sibling = Some(m)}
        IN  /\ Returned
            /\ Len(vec) = Len(pre)
            /\ ChildSeq(vec, P) = T
            /\ node(vec, P).children =
                  (IF T = <<>> THEN None ELSE <<T[1], T[Len(T)]>>)
            /\ node(vec, N).parent = None
            /\ node(vec, N).prev_sibling = None
            /\ node(vec, N).next_sibling = None
            /\ node(vec, N).children = node(pre, N).children
            /\ node(vec, N).value = node(pre, N).value
            /\ \A m \in Ids(pre) :
                  (m # N /\ IsSelfOrAncestor(pre, N, m, Len(pre))) =>
                      node(vec, m) = node(pre, m)
            /\ \A m \in Ids(pre) : m \notin touched => node(vec, m) = node(pre, m)
            /\ T # <<>> => LinksAgree(vec, P)

\* A detach of a child that had a sibling on either side.
C7_Witness ==
    /\ Did("detach")
    /\ node(pre, op.self).prev_sibling # None
    /\ node(pre, op.self).next_sibling # None
    /\ Len(ChildSeq(vec, node(pre, op.self).parent[1])) = 2

\* C8: order preservation: append on a node with child sequence C leaves C
\* followed by the new node, prepend leaves the new node followed by C, the
\* bounds and every prev/next link agree with that order, and the arena is
\* well formed again, so that k calls in a row give C followed by the k new
\* nodes in call order (append) or the k new nodes in reverse call order
\* followed by C (prepend).
C8_OrderPreservation ==
    op.name \in {"append", "prepend"} =>
        /\ Returned
        /\ ChildSeq(vec, op.self) =
              (IF op.name = "append"
               THEN ChildSeq(pre, op.self) \o <<Len(pre)>>
               ELSE <<Len(pre)>> \o ChildSeq(pre, op.self))
        /\ LinksAgree(vec, op.self)
        /\ WellFormed(vec)

\* An append to a node that already had two children.
C8_Witness ==
    /\ Did("append")
    /\ Len(ChildSeq(pre, op.self)) = 2
    /\ Len(ChildSeq(vec, op.self)) = 3

\* C9: indexed insert: on a node with child sequence C of length n,
\* insert(value, i) with i <= n returns and leaves C[0..i) + [new] + C[i..n)
\* with bounds and links agreeing, and insert(value, i) with i > n panics.
C9_IndexedInsert ==
    op.name = "insert" =>
        LET C == ChildSeq(pre, op.self)
        IN  IF op.index <= Len(C)
            THEN /\ Returned
                 /\ ChildSeq(vec, op.self) = InsertAt(C, op.index + 1, Len(pre))
                 /\ LinksAgree(vec, op.self)
            ELSE result = "panic"

\* An insert at index 1 between two children.
C9_Witness ==
    /\ Did("insert")
    /\ op.index = 1
    /\ Len(ChildSeq(pre, op.self)) = 2
    /\ ChildSeq(vec, op.self)[2] = Len(pre)

\* C10: sibling insertion placement: for an attached node N whose parent P
\* has child sequence S, insert_before leaves S with the new node right
\* before N and insert_after leaves S with the new node right after N; the
\* new node's parent is P; P's first bound becomes the new node exactly when
\* N was first (insert_before) and its last bound exactly when N was last
\* (insert_after).
C10_SiblingPlacement ==
    (op.name \in {"insert_before", "insert_after"}
        /\ node(pre, op.self).parent # None) =>
        LET N == op.self
            new == Len(pre)
            P == node(pre, N).parent[1]
            S == ChildSeq(pre, P)
            i == IndexOf(S, N)
            old == node(pre, P).children
            c == node(vec, P).children
        IN  /\ Returned
            /\ ChildSeq(vec, P) =
                  (IF op.name = "insert_before"
                   THEN InsertAt(S, i, new) ELSE InsertAt(S, i + 1, new))
            /\ node(vec, new).parent = Some(P)
            /\ c[1] = (IF op.name = "insert_before" /\ i = 1 THEN new ELSE old[1])
            /\ c[2] = (IF op.name = "insert_after" /\ i = Len(S) THEN new ELSE old[2])
            /\ LinksAgree(vec, P)

\* An insert_before on a first child that has a sibling.
C10_Witness ==
    /\ Did("insert_before")
    /\ node(pre, op.self).parent # None
    /\ node(pre, op.self).prev_sibling = None
    /\ node(pre, op.self).next_sibling # None
    /\ node(vec, node(pre, op.self).parent[1]).children[1] = Len(pre)

\* The records the arena held before the last call, as they are now.
Kept == SubSeq(vec, 1, Len(pre))

\* C11: append/detach round trip: N.append(v) followed by detach() on the
\* returned child, on a well-formed tree, returns and leaves every record
\* that existed before the append equal to what it was; the only difference
\* is one more record at the end of the arena, an orphan without siblings
\* or children.
C11_AppendDetachRoundTrip ==
    (op.name = "append.detach" /\ WellFormed(pre)) =>
        /\ Returned
        /\ Len(vec) = Len(pre) + 1
        /\ Kept = pre
        /\ node(vec, Len(pre)).parent = None
        /\ node(vec, Len(pre)).prev_sibling = None
        /\ node(vec, Len(pre)).next_sibling = None
        /\ node(vec, Len(pre)).children = None

\* An append followed by detach on a node that already had two children.
C11_Witness ==
    /\ Did("append.detach")
    /\ Len(ChildSeq(pre, op.self)) = 2
    /\ ChildSeq(vec, op.self) = ChildSeq(pre, op.self)
    /\ Len(vec) = Len(pre) + 1

\* C12: orphan shape is an invariant: after every call that returns, every
\* node whose parent is None has no prev_sibling and no next_sibling, and no
\* node names it as prev_sibling, next_sibling, first child or last child.
C12_OrphanShape ==
    Returned =>
        \A n \in Ids(vec) :
            node(vec, n).parent = None =>
                /\ node(vec, n).prev_sibling = None
                /\ node(vec, n).next_sibling = None
                /\ \A m \in Ids(vec) :
                      /\ node(vec, m).prev_sibling # Some(n)
                      /\ node(vec, m).next_sibling # Some(n)
                      /\ node(vec, m).children = None
                            \/ (node(vec, m).children[1] # n
                                /\ node(vec, m).children[2] # n)

\* The calls that push a record, and those that do not.
Allocating ==
    {"orphan", "append", "prepend", "insert", "insert_before", "insert_after",
     "append.detach"}

Relinking ==
    {"detach", "append_id", "prepend_id", "insert_id", "insert_id_before",
     "insert_id_after", "reparent_from_id_append", "reparent_from_id_prepend"}

\* C13: the arena is append-only and handles are stable: no call shortens
\* the arena; orphan, append, prepend, insert, insert_before and insert_after
\* lengthen it by exactly one and the handle they return is the length
\* before the call; detach, the *_id calls and reparent_from_id_* leave the
\* length as it was; every handle that was present stays present, with the
\* value it had.
C13_AppendOnly ==
    /\ Len(vec) >= Len(pre)
    /\ op.name \in Allocating =>
          /\ Len(vec) = Len(pre) + 1
          /\ op.id = Len(pre)
          /\ get(vec, op.id)
    /\ op.name \in Relinking => Len(vec) = Len(pre)
    /\ \A h \in Ids(pre) : get(vec, h) /\ node(vec, h).value = node(pre, h).value

\* An orphan call on an arena whose last record is already a blank orphan.
C13_Witness ==
    /\ Did("orphan")
    /\ Len(pre) > 1
    /\ node(pre, Len(pre) - 1).parent = None
    /\ node(pre, Len(pre) - 1).children = None
    /\ Len(vec) = Len(pre) + 1

\* Every handle an Option field holds is below the arena length n.
InRange(field, n) == \A i \in 1 .. Len(field) : field[i] < n

\* C14: every stored handle is in range: in every state, after calls that
\* panicked included, each handle held in a parent, prev_sibling,
\* next_sibling or children field is smaller than the arena length.
C14_HandlesInRange ==
    \A i \in 1 .. Len(vec) :
        /\ InRange(vec[i].parent, Len(vec))
        /\ InRange(vec[i].prev_sibling, Len(vec))
        /\ InRange(vec[i].next_sibling, Len(vec))
        /\ InRange(vec[i].children, Len(vec))

\* A detach of a first child, after which the parent's first bound is the
\* node with the highest handle of the arena.
C14_Witness ==
    /\ Did("detach")
    /\ node(pre, op.self).parent # None
    /\ node(pre, node(pre, op.self).parent[1]).children[1] = op.self
    /\ node(vec, node(pre, op.self).parent[1]).children # None
    /\ node(vec, node(pre, op.self).parent[1]).children[1] = Len(vec) - 1

\* C15: detach idempotence: detach on a node whose parent is None returns
\* and leaves every field of every node unchanged; and after any detach
\* that returned, a second detach on the same node returns and changes
\* nothing.
C15_DetachIdempotent ==
    /\ (op.name = "detach" /\ node(pre, op.self).parent = None) =>
          Returned /\ vec = pre
    /\ Did("detach") => detach(vec, op.self) = Ok(vec)

\* A detach that unlinked a node from between two siblings.
C15_Witness ==
    /\ Did("detach")
    /\ node(pre, op.self).prev_sibling # None
    /\ node(pre, op.self).next_sibling # None
    /\ vec # pre
    /\ node(vec, op.self).parent = None

\* The calls that place a node next to the receiver.
SiblingOps == {"insert_before", "insert_after", "insert_id_before", "insert_id_after"}

\* C16: sibling insertion requires a parent: insert_before, insert_after,
\* insert_id_before and insert_id_after on a node whose parent is None
\* panic, and every record that existed before the call is unchanged.
C16_SiblingNeedsParent ==
    (op.name \in SiblingOps /\ node(pre, op.self).parent = None) =>
        /\ result = "panic"
        /\ Kept = pre

\* An insert_id_after on an orphan, given the handle of an attached node.
C16_Witness ==
    /\ op.name = "insert_id_after"
    /\ op.self # 0
    /\ node(pre, op.self).parent = None
    /\ get(pre, op.id)
    /\ node(pre, op.id).parent # None
    /\ result = "panic"

\* C17: moving a node with append_id / prepend_id: for a node N with child
\* sequence C and any handle h of the arena that is neither N nor an
\* ancestor of N (an orphan, a child of another node or already a child of
\* N, its current last or first child included), N.append_id(h) returns and
\* leaves N with the child sequence (C without h) then h, N.prepend_id(h)
\* with h then (C without h), all links and bounds agreeing with that order.
C17_MoveOrder ==
    (op.name \in {"append_id", "prepend_id"}
        /\ get(pre, op.id)
        /\ ~IsSelfOrAncestor(pre, op.id, op.self, Len(pre))) =>
        LET N == op.self
            h == op.id
            rest == Without(ChildSeq(pre, N), h)
        IN  /\ Returned
            /\ ChildSeq(vec, N) =
                  (IF op.name = "append_id" THEN rest \o <<h>> ELSE <<h>> \o rest)
            /\ LinksAgree(vec, N)

\* The case C18 is about: N.reparent_from_id_append(S) or
\* N.reparent_from_id_prepend(S) where S is a node of the arena other than N
\* and N is not below S.
C18_Case ==
    /\ op.name \in {"reparent_from_id_append", "reparent_from_id_prepend"}
    /\ get(pre, op.id)
    /\ op.id # op.self
    /\ ~IsSelfOrAncestor(pre, op.id, op.self, Len(pre))

\* C18: reparenting moves every child: after N.reparent_from_id_append(S) or
\* N.reparent_from_id_prepend(S), every node that was a child of S has
\* parent = Some(N), and detach on it returns and takes it out of N's child
\* chain.
C18_ReparentAll ==
    C18_Case =>
        /\ Returned
        /\ \A c \in Range(ChildSeq(pre, op.id)) :
              /\ node(vec, c).parent = Some(op.self)
              /\ detach(vec, c).ok
              /\ c \notin Range(ChildSeq(detach(vec, c).v, op.self))

\* C19: a failed call leaves no partial state: insert with an index greater
\* than the child count, and insert_before / insert_after on a node without
\* parent, panic and leave the arena, its length included, as it was.
C19_NoPartialState ==
    (\/ op.name = "insert" /\ op.index > Len(ChildSeq(pre, op.self))
     \/ op.name \in {"insert_before", "insert_after"}
            /\ node(pre, op.self).parent = None) =>
        /\ result = "panic"
        /\ vec = pre

\* C20: invalid handles are rejected before any mutation: a HandleOps call
\* given a handle greater than or equal to the arena length panics and
\* leaves every field of every node and the arena length as they were.
C20_InvalidHandle ==
    (op.name \in HandleOps /\ op.id >= Len(pre)) =>
        /\ result = "panic"
        /\ vec = pre

\* A reparent_from_id_prepend, given the first handle past the arena, on a
\* node that has children.
C20_Witness ==
    /\ op.name = "reparent_from_id_prepend"
    /\ op.id = Len(pre)
    /\ node(pre, op.self).children # None
    /\ result = "panic"

\* Following parent links from cur arrives at target within fuel + 1 steps.
RECURSIVE ReturnsTo(_, _, _, _)
ReturnsTo(v, cur, target, fuel) ==
    IF node(v, cur).parent = None THEN FALSE
    ELSE IF node(v, cur).parent[1] = target THEN TRUE
    ELSE IF fuel = 0 THEN FALSE
    ELSE ReturnsTo(v, node(v, cur).parent[1], target, fuel - 1)

\* The case C21 is about: an IdOps call of N given a handle A that is N
\* itself or an ancestor of N, the call's own preconditions being met
\* (an index up to N's child count for insert_id, a receiver with a parent
\* for insert_id_before and insert_id_after).
C21_Case ==
    /\ op.name \in IdOps
    /\ get(pre, op.id)
    /\ IsSelfOrAncestor(pre, op.id, op.self, Len(pre))
    /\ op.name = "insert_id" => op.index <= Len(ChildSeq(pre, op.self))
    /\ op.name \in {"insert_id_before", "insert_id_after"} =>
          node(pre, op.self).parent # None

\* Following parent links from n comes back to n and never reaches a node
\* without a parent.
OnParentCycle(v, n) == ReturnsTo(v, n, n, Len(v)) /\ ~ReachesTop(v, n, Len(v))

\* C21 as stated: ancestry is not validated by the *_id operations:
\* N.append_id(A), and likewise prepend_id, insert_id, insert_id_before and
\* insert_id_after, where A is N or a proper ancestor of N, returns, and
\* afterwards following parent links from N returns to N and never reaches
\* a node with parent = None.
C21_AncestryNotValidated ==
    C21_Case => Returned /\ OnParentCycle(vec, op.self)

\* C21 as amended: on a well-formed tree, with A being N or a proper
\* ancestor of N: append_id, prepend_id and insert_id return and leave N on
\* a parent cycle; insert_id_before and insert_id_after return too, but
\* place A under N's parent: when A is N every parent field stays as it was
\* and N becomes its own next_sibling, and when A is a proper ancestor of N
\* it is A that ends on a parent cycle, so that following parent links from
\* N never reaches a node with parent = None.
C21_AncestryCycle ==
    (C21_Case /\ WellFormed(pre)) =>
        LET N == op.self
            A == op.id
        IN  /\ Returned
            /\ IF op.name \in {"append_id", "prepend_id", "insert_id"}
               THEN OnParentCycle(vec, N)
               ELSE IF A = N
               THEN /\ \A i \in Ids(pre) : node(vec, i).parent = node(pre, i).parent
                    /\ node(vec, N).next_sibling = Some(N)
               ELSE /\ OnParentCycle(vec, A)
                    /\ ~ReachesTop(vec, N, Len(vec))

\* An append_id that was given the receiver's parent, itself a child of the
\* root.
C21_Witness ==
    /\ Did("append_id")
    /\ node(pre, op.self).parent = Some(op.id)
    /\ node(pre, op.id).parent # None
    /\ OnParentCycle(vec, op.self)

\* Following next_sibling from id comes to a node without next_sibling
\* within fuel steps.
RECURSIVE NextEnds(_, _, _)
NextEnds(v, id, fuel) ==
    IF node(v, id).next_sibling = None THEN TRUE
    ELSE IF fuel = 0 THEN FALSE
    ELSE NextEnds(v, node(v, id).next_sibling[1], fuel - 1)

\* The same for prev_sibling.
RECURSIVE PrevEnds(_, _, _)
PrevEnds(v, id, fuel) ==
    IF node(v, id).prev_sibling = None THEN TRUE
    ELSE IF fuel = 0 THEN FALSE
    ELSE PrevEnds(v, node(v, id).prev_sibling[1], fuel - 1)

\* C22: child and sibling iteration terminates: after every call that
\* returns, as long as no *_id or reparent_from_id_* call that was given
\* its receiver or an ancestor of its receiver as handle has acted, following
\* next_sibling from any node, and likewise prev_sibling, reaches a node
\* without that link before any node is visited twice (within Len(vec) - 1
\* steps, there being Len(vec) nodes).
C22_IterationTerminates ==
    (Returned /\ ~misused) =>
        \A n \in Ids(vec) :
            /\ NextEnds(vec, n, Len(vec) - 1)
            /\ PrevEnds(vec, n, Len(vec) - 1)

====
